---- MODULE Spec2Model ----
(***************************************************************************)
(* TrustLink: an attestation registry contract.  One administrator, a set  *)
(* of authorized issuers, attestations keyed by a deterministic id, and    *)
(* two append-only indexes (per subject, per issuer).                      *)
(*                                                                         *)
(* Every public entry point of src/src/lib.rs is one atomic action: the    *)
(* host runs a contract call to completion and rolls every write back when *)
(* the call returns Err or traps.                                          *)
(***************************************************************************)
EXTENDS Integers, Sequences, FiniteSets, TLC

\* ----- bounds of the model ------------------------------------------------
NumAddr == 2
NumClaims == 2
MaxTime == 1
MaxAtt == 2
MaxIndex == 3
MaxPos == 3

Address == 1..NumAddr
ClaimType == 1..NumClaims
Time == 0..MaxTime

\* Option<T>: None is the empty set, Some(x) the singleton {x}.
None == {}
Some(x) == {x}
Unwrap(o) == CHOOSE x \in o : TRUE
Expiration == {None} \cup {Some(e) : e \in 1..MaxTime}

VARIABLES
    admin,                  \* instance slot StorageKey::Admin : Option<Address>
    issuers,                \* the addresses a with StorageKey::Issuer(a) present
    attestations,           \* StorageKey::Attestation(id) -> Attestation
    subject_attestations,   \* StorageKey::SubjectAttestations(a) -> Vec<id>
    issuer_attestations,    \* StorageKey::IssuerAttestations(a) -> Vec<id>
    now,                    \* env.ledger().timestamp()
    events,                 \* the events the last call published
    last,                   \* the call that produced this state, and its result
    page,                   \* the last paginated query and what it returned
    frames                  \* the create_attestation calls in progress

vars == <<admin, issuers, attestations, subject_attestations,
          issuer_attestations, now, events, last, page, frames>>

\* ----- types.rs (not part of the sources at hand) ------------------------
\* Attestation::generate_id: a deterministic function of its four inputs
\* that tells distinct inputs apart.
generate_id(issuer, subject, claim_type, timestamp) ==
    <<issuer, subject, claim_type, timestamp>>

\* Attestation::get_status: revocation wins over expiration; the expiration
\* tick itself is already expired.
get_status(attestation, current_time) ==
    IF attestation.revoked THEN "Revoked"
    ELSE IF attestation.expiration # None
            /\ current_time >= Unwrap(attestation.expiration) THEN "Expired"
    ELSE "Valid"

\* ----- storage.rs ---------------------------------------------------------
has_admin == admin # None

set_admin(a) == Some(a)

get_admin ==
    IF admin # None THEN [res |-> "Ok", val |-> Unwrap(admin)]
    ELSE [res |-> "NotInitialized", val |-> 0]

is_issuer(address) == address \in issuers

add_issuer(issuer) == issuers \cup {issuer}

storage_remove_issuer(issuer) == issuers \ {issuer}

has_attestation(id) == id \in DOMAIN attestations

set_attestation(attestation) ==
    [k \in (DOMAIN attestations) \cup {attestation.id} |->
        IF k = attestation.id THEN attestation ELSE attestations[k]]

get_attestation(id) ==
    IF id \in DOMAIN attestations
    THEN [res |-> "Ok", val |-> attestations[id]]
    ELSE [res |-> "NotFound", val |-> 0]

get_subject_attestations(subject) == subject_attestations[subject]

\* An index write that puts the new id in front.
add_subject_attestation_in_front(subject, attestation_id) ==
    [subject_attestations EXCEPT
        ![subject] = <<attestation_id>> \o get_subject_attestations(subject)]

add_subject_attestation(subject, attestation_id) ==
    [subject_attestations EXCEPT
        ![subject] = Append(get_subject_attestations(subject), attestation_id)]

get_issuer_attestations(issuer) == issuer_attestations[issuer]

\* An index update that reads and extends the vector but never stores it.
add_issuer_attestation_no_write_back(issuer, attestation_id) == issuer_attestations

add_issuer_attestation(issuer, attestation_id) ==
    [issuer_attestations EXCEPT
        ![issuer] = Append(get_issuer_attestations(issuer), attestation_id)]

\* ----- validation.rs ------------------------------------------------------
\* A check that takes the caller for the administrator while none is stored.
require_admin_default_caller(caller) ==
    IF get_admin.res = "Ok" /\ caller # get_admin.val THEN "Unauthorized"
    ELSE "Ok"

\* A check that only asks for a stored administrator, whoever calls.
require_admin_any_caller(caller) == get_admin.res

require_admin(caller) ==
    IF get_admin.res # "Ok" THEN get_admin.res
    ELSE IF caller # get_admin.val THEN "Unauthorized"
    ELSE "Ok"

\* A check that lets every caller through.
require_issuer_any_caller(caller) == "Ok"

require_issuer(caller) ==
    IF ~is_issuer(caller) THEN "Unauthorized" ELSE "Ok"

\* ----- events.rs ----------------------------------------------------------
\* A creation event published under the issuer instead of the subject.
attestation_created_by_issuer(attestation) ==
    [topic |-> <<"created", attestation.issuer>>,
     data  |-> <<attestation.id, attestation.issuer,
                 attestation.claim_type, attestation.timestamp>>]

attestation_created(attestation) ==
    [topic |-> <<"created", attestation.subject>>,
     data  |-> <<attestation.id, attestation.issuer,
                 attestation.claim_type, attestation.timestamp>>]

attestation_revoked(attestation_id, issuer) ==
    [topic |-> <<"revoked", issuer>>, data |-> attestation_id]

\* ----- lib.rs -------------------------------------------------------------
\* The outcome of a call: its name, the address it has to be authenticated
\* as, the result ("Ok" or the error) and the attestation id it returned
\* (create_attestation) or was given (revoke_attestation).
\* A call whose require_auth fails is aborted by the host before the contract
\* reads or writes anything more: what is left of it is the address that
\* failed to authenticate.
NoId == <<>>

\* ----- u32 ---------------------------------------------------------------
\* A u32 is kept at its width as two 16-bit limbs <<high, low>>.
Limb == 65536
u32_of(n) == <<0, n>>
U32_MAX == <<Limb - 1, Limb - 1>>
u32_lt(a, b) == a[1] < b[1] \/ (a[1] = b[1] /\ a[2] < b[2])
u32_min(a, b) == IF u32_lt(b, a) THEN b ELSE a
u32_carry(a, b) == (a[2] + b[2]) \div Limb
u32_overflows(a, b) == a[1] + b[1] + u32_carry(a, b) >= Limb
u32_wrapping_add(a, b) ==
    <<(a[1] + b[1] + u32_carry(a, b)) % Limb, (a[2] + b[2]) % Limb>>

\* ----- calls in progress ---------------------------------------------------
NumProc == 2
Proc == 1..NumProc

NoAttestation ==
    [id |-> NoId, issuer |-> 0, subject |-> 0, claim_type |-> 0,
     timestamp |-> 0, expiration |-> None, revoked |-> FALSE]

\* A call slot no call has used: the statement the call is at, the record it
\* built, and the vectors add_subject_attestation and add_issuer_attestation
\* read into their local variable.
NoFrame ==
    [pc |-> "idle", attestation |-> NoAttestation,
     subject_ids |-> <<>>, issuer_ids |-> <<>>]

\* No paginated query answered since the last state-changing call.
NoPage ==
    [op |-> "none", key |-> 0, start |-> u32_of(0), limit |-> u32_of(0),
     res |-> "Ok", val |-> <<>>]

Call(op, principal, res, id) ==
    IF res = "AuthFailed"
    THEN [op |-> "require_auth", principal |-> principal, res |-> res,
          id |-> NoId]
    ELSE [op |-> op, principal |-> principal, res |-> res, id |-> id]

\* An initialization that does not look for a stored administrator.
initialize_result_no_admin_check(a, auth) ==
    IF ~auth THEN "AuthFailed" ELSE "Ok"

initialize_result(a, auth) ==
    IF has_admin THEN "AlreadyInitialized"
    ELSE IF ~auth THEN "AuthFailed"
    ELSE "Ok"

initialize(a, auth) ==
    LET r == initialize_result(a, auth) IN
    /\ admin' = IF r = "Ok" THEN set_admin(a) ELSE admin
    /\ last' = Call("initialize", a, r, NoId)
    /\ events' = <<>>
    /\ UNCHANGED <<issuers, attestations, subject_attestations,
                   issuer_attestations, now, frames>>
    /\ page' = NoPage

\* A registration that does not ask for the administrator.
register_issuer_result_no_admin_check(a, issuer, auth) ==
    IF ~auth THEN "AuthFailed" ELSE "Ok"

register_issuer_result(a, issuer, auth) ==
    IF ~auth THEN "AuthFailed" ELSE require_admin(a)

register_issuer(a, issuer, auth) ==
    LET r == register_issuer_result(a, issuer, auth) IN
    /\ issuers' = IF r = "Ok" THEN add_issuer(issuer) ELSE issuers
    /\ last' = Call("register_issuer", a, r, NoId)
    /\ events' = <<>>
    /\ UNCHANGED <<admin, attestations, subject_attestations,
                   issuer_attestations, now, frames>>
    /\ page' = NoPage

remove_issuer_result(a, issuer, auth) ==
    IF ~auth THEN "AuthFailed" ELSE require_admin(a)

remove_issuer(a, issuer, auth) ==
    LET r == remove_issuer_result(a, issuer, auth) IN
    /\ issuers' = IF r = "Ok" THEN storage_remove_issuer(issuer) ELSE issuers
    /\ last' = Call("remove_issuer", a, r, NoId)
    /\ events' = <<>>
    /\ UNCHANGED <<admin, attestations, subject_attestations,
                   issuer_attestations, now, frames>>
    /\ page' = NoPage

\* A creation that does not look for the id in the store.
create_attestation_result_no_duplicate_check(issuer, subject, claim_type, expiration, auth) ==
    IF ~auth THEN "AuthFailed"
    ELSE IF require_issuer(issuer) # "Ok" THEN require_issuer(issuer)
    ELSE "Ok"

create_attestation_result(issuer, subject, claim_type, expiration, auth) ==
    IF ~auth THEN "AuthFailed"
    ELSE IF require_issuer(issuer) # "Ok" THEN require_issuer(issuer)
    ELSE IF has_attestation(generate_id(issuer, subject, claim_type, now))
         THEN "DuplicateAttestation"
    ELSE "Ok"

\* A record built without the expiration that was passed.
new_attestation_no_expiration(issuer, subject, claim_type, expiration) ==
    [id         |-> generate_id(issuer, subject, claim_type, now),
     issuer     |-> issuer,
     subject    |-> subject,
     claim_type |-> claim_type,
     timestamp  |-> now,
     expiration |-> None,
     revoked    |-> FALSE]

new_attestation(issuer, subject, claim_type, expiration) ==
    [id         |-> generate_id(issuer, subject, claim_type, now),
     issuer     |-> issuer,
     subject    |-> subject,
     claim_type |-> claim_type,
     timestamp  |-> now,
     expiration |-> expiration,
     revoked    |-> FALSE]

create_attestation(issuer, subject, claim_type, expiration, auth) ==
    LET r == create_attestation_result(issuer, subject, claim_type,
                                       expiration, auth)
        attestation == new_attestation(issuer, subject, claim_type, expiration)
    IN
    /\ IF r = "Ok"
       THEN /\ attestations' = set_attestation(attestation)
            /\ subject_attestations' =
                   add_subject_attestation(subject, attestation.id)
            /\ issuer_attestations' =
                   add_issuer_attestation(issuer, attestation.id)
            /\ events' = <<attestation_created(attestation)>>
            /\ last' = Call("create_attestation", issuer, r, attestation.id)
       ELSE /\ UNCHANGED <<attestations, subject_attestations,
                           issuer_attestations>>
            /\ events' = <<>>
            /\ last' = Call("create_attestation", issuer, r, NoId)
    /\ UNCHANGED <<admin, issuers, now, frames>>
    /\ page' = NoPage

\* A revocation that also asks for the caller to be a registered issuer.
revoke_attestation_result_current_issuers(issuer, attestation_id, auth) ==
    IF ~auth THEN "AuthFailed"
    ELSE IF require_issuer(issuer) # "Ok" THEN require_issuer(issuer)
    ELSE IF get_attestation(attestation_id).res # "Ok"
         THEN get_attestation(attestation_id).res
    ELSE IF get_attestation(attestation_id).val.issuer # issuer
         THEN "Unauthorized"
    ELSE IF get_attestation(attestation_id).val.revoked THEN "AlreadyRevoked"
    ELSE "Ok"

\* A revocation that tests the revoked flag before the caller.
revoke_attestation_result_revoked_first(issuer, attestation_id, auth) ==
    IF ~auth THEN "AuthFailed"
    ELSE IF get_attestation(attestation_id).res # "Ok"
         THEN get_attestation(attestation_id).res
    ELSE IF get_attestation(attestation_id).val.revoked THEN "AlreadyRevoked"
    ELSE IF get_attestation(attestation_id).val.issuer # issuer
         THEN "Unauthorized"
    ELSE "Ok"

\* A revocation that does not test the revoked flag.
revoke_attestation_result_again(issuer, attestation_id, auth) ==
    IF ~auth THEN "AuthFailed"
    ELSE IF get_attestation(attestation_id).res # "Ok"
         THEN get_attestation(attestation_id).res
    ELSE IF get_attestation(attestation_id).val.issuer # issuer
         THEN "Unauthorized"
    ELSE "Ok"

\* A revocation that does not ask the issuer to authorize the call.
revoke_attestation_result_no_auth(issuer, attestation_id, auth) ==
    IF get_attestation(attestation_id).res # "Ok"
    THEN get_attestation(attestation_id).res
    ELSE IF get_attestation(attestation_id).val.issuer # issuer
    THEN "Unauthorized"
    ELSE IF get_attestation(attestation_id).val.revoked
    THEN "AlreadyRevoked"
    ELSE "Ok"

revoke_attestation_result(issuer, attestation_id, auth) ==
    IF ~auth THEN "AuthFailed"
    ELSE IF get_attestation(attestation_id).res # "Ok"
         THEN get_attestation(attestation_id).res
    ELSE IF get_attestation(attestation_id).val.issuer # issuer
         THEN "Unauthorized"
    ELSE IF get_attestation(attestation_id).val.revoked THEN "AlreadyRevoked"
    ELSE "Ok"

revoke_attestation(issuer, attestation_id, auth) ==
    LET r == revoke_attestation_result(issuer, attestation_id, auth) IN
    /\ IF r = "Ok"
       THEN /\ attestations' = set_attestation(
                   [get_attestation(attestation_id).val
                        EXCEPT !.revoked = TRUE])
            /\ events' = <<attestation_revoked(attestation_id, issuer)>>
       ELSE /\ UNCHANGED attestations
            /\ events' = <<>>
    /\ last' = Call("revoke_attestation", issuer, r, attestation_id)
    /\ UNCHANGED <<admin, issuers, subject_attestations,
                   issuer_attestations, now, frames>>
    /\ page' = NoPage

\* has_valid_claim scans the subject's index front to back and returns at
\* the first attestation of the claim type that is Valid; an id without a
\* record is skipped.
RECURSIVE scan_valid_claim(_, _)
scan_valid_claim(attestation_ids, claim_type) ==
    IF attestation_ids = <<>> THEN FALSE
    ELSE LET got == get_attestation(Head(attestation_ids)) IN
         IF /\ got.res = "Ok"
            /\ got.val.claim_type = claim_type
            /\ get_status(got.val, now) = "Valid"
         THEN TRUE
         ELSE scan_valid_claim(Tail(attestation_ids), claim_type)

\* A scan that stops after the first entry of the index.
has_valid_claim_first_only(subject, claim_type) ==
    /\ get_subject_attestations(subject) # <<>>
    /\ scan_valid_claim(<<Head(get_subject_attestations(subject))>>,
                        claim_type)

\* A scan that only counts attestations whose issuer is still registered.
has_valid_claim_registered_issuers(subject, claim_type) ==
    \E k \in 1..Len(get_subject_attestations(subject)) :
       LET got == get_attestation(get_subject_attestations(subject)[k]) IN
       /\ got.res = "Ok"
       /\ got.val.claim_type = claim_type
       /\ get_status(got.val, now) = "Valid"
       /\ is_issuer(got.val.issuer)

has_valid_claim(subject, claim_type) ==
    scan_valid_claim(get_subject_attestations(subject), claim_type)

\* A status taken at the creation time instead of the current time.
get_attestation_status_at_creation(attestation_id) ==
    IF get_attestation(attestation_id).res # "Ok"
    THEN [res |-> get_attestation(attestation_id).res, val |-> "None"]
    ELSE [res |-> "Ok",
          val |-> get_status(get_attestation(attestation_id).val,
                             get_attestation(attestation_id).val.timestamp)]

get_attestation_status(attestation_id) ==
    IF get_attestation(attestation_id).res # "Ok"
    THEN [res |-> get_attestation(attestation_id).res, val |-> "None"]
    ELSE [res |-> "Ok",
          val |-> get_status(get_attestation(attestation_id).val, now)]

\* Vec::get: the element at a u32 position, if there is one.
vec_get(v, i) ==
    IF u32_lt(i, u32_of(Len(v))) THEN Some(v[i[2] + 1]) ELSE None

\* for i in start..end { if let Some(id) = all_ids.get(i) { push_back } }
RECURSIVE page_loop(_, _, _, _)
page_loop(all_ids, i, end, result) ==
    IF ~u32_lt(i, end) THEN result
    ELSE page_loop(all_ids, u32_wrapping_add(i, u32_of(1)), end,
                   IF vec_get(all_ids, i) # None
                   THEN Append(result, Unwrap(vec_get(all_ids, i)))
                   ELSE result)

\* A page whose end bound is counted from the first entry, whatever start is.
paginate_end_from_zero(all_ids, start, limit, overflow_checks) ==
    [res |-> "Ok",
     val |-> page_loop(all_ids, start, u32_min(limit, u32_of(Len(all_ids))),
                       <<>>)]

\* The body shared by get_subject_attestations and get_issuer_attestations:
\* `start + limit` is a plain u32 addition, which panics when the build
\* checks overflow and wraps around when it does not.
paginate(all_ids, start, limit, overflow_checks) ==
    IF u32_overflows(start, limit) /\ overflow_checks
    THEN [res |-> "Panic", val |-> <<>>]
    ELSE [res |-> "Ok",
          val |-> page_loop(all_ids, start,
                            u32_min(u32_wrapping_add(start, limit),
                                    u32_of(Len(all_ids))),
                            <<>>)]

contract_get_subject_attestations(subject, start, limit, overflow_checks) ==
    LET r == paginate(get_subject_attestations(subject), start, limit,
                      overflow_checks) IN
    /\ page' = [op |-> "get_subject_attestations", key |-> subject,
                start |-> start, limit |-> limit,
                res |-> r.res, val |-> r.val]
    /\ UNCHANGED <<admin, issuers, attestations, subject_attestations,
                   issuer_attestations, now, events, last, frames>>

contract_get_issuer_attestations(issuer, start, limit, overflow_checks) ==
    LET r == paginate(get_issuer_attestations(issuer), start, limit,
                      overflow_checks) IN
    /\ page' = [op |-> "get_issuer_attestations", key |-> issuer,
                start |-> start, limit |-> limit,
                res |-> r.res, val |-> r.val]
    /\ UNCHANGED <<admin, issuers, attestations, subject_attestations,
                   issuer_attestations, now, events, last, frames>>

\* The ledger closes and the timestamp moves on.
Tick ==
    /\ now < MaxTime
    /\ now' = now + 1
    /\ last' = Call("tick", 0, "Ok", NoId)
    /\ events' = <<>>
    /\ UNCHANGED <<admin, issuers, attestations, subject_attestations,
                   issuer_attestations, frames>>
    /\ page' = NoPage

\* An id no create_attestation call produces.
MissingId == <<0, 0, 0, 0>>

\* The ids a caller passes: those of the stored attestations and a missing one.
IdInputs == (DOMAIN attestations) \cup {MissingId}

Init ==
    /\ admin = None
    /\ issuers = {}
    /\ attestations = [k \in {} |-> 0]
    /\ subject_attestations = [a \in Address |-> <<>>]
    /\ issuer_attestations = [a \in Address |-> <<>>]
    /\ now = 0
    /\ events = <<>>
    /\ last = Call("deploy", 0, "Ok", NoId)
    /\ page = NoPage
    /\ frames = [p \in Proc |-> NoFrame]

\* A call that is not authenticated as its principal is aborted at
\* require_auth whatever its other arguments are (initialize looks for an
\* administrator first).  The model stores at most MaxAtt attestations and
\* calls create_attestation only while there is room for one more.
Next ==
    \/ \E a \in Address, auth \in BOOLEAN : initialize(a, auth)
    \/ \E a \in Address, i \in Address : register_issuer(a, i, TRUE)
    \/ \E a \in Address : register_issuer(a, a, FALSE)
    \/ \E a \in Address, i \in Address : remove_issuer(a, i, TRUE)
    \/ \E a \in Address : remove_issuer(a, a, FALSE)
    \/ \E i \in Address, s \in Address, c \in ClaimType, e \in Expiration :
          /\ Cardinality(DOMAIN attestations) < MaxAtt
          /\ create_attestation(i, s, c, e, TRUE)
    \/ \E i \in Address :
          /\ Cardinality(DOMAIN attestations) < MaxAtt
          /\ create_attestation(i, i, 1, None, FALSE)
    \/ \E i \in Address, id \in IdInputs : revoke_attestation(i, id, TRUE)
    \/ \E i \in Address, id \in IdInputs : revoke_attestation(i, id, FALSE)
    \/ Tick

Spec == Init /\ [][Next]_vars

\* ----- create_attestation, statement by statement -------------------------
\* The statements of the success path of create_attestation in program
\* order; add_subject_attestation and add_issuer_attestation each read the
\* stored vector and then write it back with the id pushed.
next_statement_index_first(pc) ==
    CASE pc = "checks"              -> "read_subject_index"
      [] pc = "read_subject_index"  -> "write_subject_index"
      [] pc = "write_subject_index" -> "read_issuer_index"
      [] pc = "read_issuer_index"   -> "write_issuer_index"
      [] pc = "write_issuer_index"  -> "set_attestation"
      [] pc = "set_attestation"     -> "publish"
      [] pc = "publish"             -> "idle"

next_statement(pc) ==
    CASE pc = "checks"              -> "set_attestation"
      [] pc = "set_attestation"     -> "read_subject_index"
      [] pc = "read_subject_index"  -> "write_subject_index"
      [] pc = "write_subject_index" -> "read_issuer_index"
      [] pc = "read_issuer_index"   -> "write_issuer_index"
      [] pc = "write_issuer_index"  -> "publish"
      [] pc = "publish"             -> "idle"

Idle == \A p \in Proc : frames[p].pc = "idle"

Goto(p, subject_ids, issuer_ids) ==
    [frames EXCEPT ![p] = [pc          |-> next_statement(frames[p].pc),
                           attestation |-> frames[p].attestation,
                           subject_ids |-> subject_ids,
                           issuer_ids  |-> issuer_ids]]

\* A write-back that pushes the id on the vector stored now.
subject_write_back_fresh(p) ==
    Append(get_subject_attestations(frames[p].attestation.subject),
           frames[p].attestation.id)

\* attestations.push_back(id) on the vector the call read, then set.
subject_write_back(p) ==
    Append(frames[p].subject_ids, frames[p].attestation.id)

issuer_write_back(p) ==
    Append(frames[p].issuer_ids, frames[p].attestation.id)

\* require_auth, require_issuer, the timestamp, the id, the duplicate check
\* and the construction of the record.
create_begin(p, issuer, subject, claim_type, expiration) ==
    LET r == create_attestation_result(issuer, subject, claim_type,
                                       expiration, TRUE)
    IN
    /\ frames[p].pc = "idle"
    /\ IF r = "Ok"
       THEN /\ frames' =
                  [frames EXCEPT
                     ![p] = [pc          |-> next_statement("checks"),
                             attestation |-> new_attestation(issuer, subject,
                                                claim_type, expiration),
                             subject_ids |-> <<>>,
                             issuer_ids  |-> <<>>]]
            /\ UNCHANGED <<events, last>>
       ELSE /\ events' = <<>>
            /\ last' = Call("create_attestation", issuer, r, NoId)
            /\ UNCHANGED frames
    /\ page' = NoPage
    /\ UNCHANGED <<admin, issuers, attestations, subject_attestations,
                   issuer_attestations, now>>

step_set_attestation(p) ==
    /\ frames[p].pc = "set_attestation"
    /\ attestations' = set_attestation(frames[p].attestation)
    /\ frames' = Goto(p, frames[p].subject_ids, frames[p].issuer_ids)
    /\ UNCHANGED <<admin, issuers, subject_attestations,
                   issuer_attestations, now, events, last, page>>

step_read_subject_index(p) ==
    /\ frames[p].pc = "read_subject_index"
    /\ frames' = Goto(p, get_subject_attestations(
                            frames[p].attestation.subject),
                      frames[p].issuer_ids)
    /\ UNCHANGED <<admin, issuers, attestations, subject_attestations,
                   issuer_attestations, now, events, last, page>>

step_write_subject_index(p) ==
    /\ frames[p].pc = "write_subject_index"
    /\ subject_attestations' =
          [subject_attestations EXCEPT
             ![frames[p].attestation.subject] = subject_write_back(p)]
    /\ frames' = Goto(p, frames[p].subject_ids, frames[p].issuer_ids)
    /\ UNCHANGED <<admin, issuers, attestations, issuer_attestations, now,
                   events, last, page>>

step_read_issuer_index(p) ==
    /\ frames[p].pc = "read_issuer_index"
    /\ frames' = Goto(p, frames[p].subject_ids,
                      get_issuer_attestations(frames[p].attestation.issuer))
    /\ UNCHANGED <<admin, issuers, attestations, subject_attestations,
                   issuer_attestations, now, events, last, page>>

step_write_issuer_index(p) ==
    /\ frames[p].pc = "write_issuer_index"
    /\ issuer_attestations' =
          [issuer_attestations EXCEPT
             ![frames[p].attestation.issuer] = issuer_write_back(p)]
    /\ frames' = Goto(p, frames[p].subject_ids, frames[p].issuer_ids)
    /\ UNCHANGED <<admin, issuers, attestations, subject_attestations, now,
                   events, last, page>>

step_publish(p) ==
    /\ frames[p].pc = "publish"
    /\ events' = <<attestation_created(frames[p].attestation)>>
    /\ last' = Call("create_attestation", frames[p].attestation.issuer, "Ok",
                    frames[p].attestation.id)
    /\ frames' = Goto(p, frames[p].subject_ids, frames[p].issuer_ids)
    /\ UNCHANGED <<admin, issuers, attestations, subject_attestations,
                   issuer_attestations, now, page>>

\* One invocation at a time, as the host runs them: a call starts only when
\* no other is in progress, and create_attestation advances one statement
\* per step.
StepNext ==
    \/ /\ Idle
       /\ \/ \E a \in Address : initialize(a, TRUE)
          \/ \E a \in Address, i \in Address : register_issuer(a, i, TRUE)
          \/ \E a \in Address, i \in Address : remove_issuer(a, i, TRUE)
          \/ \E i \in Address, id \in IdInputs :
                revoke_attestation(i, id, TRUE)
          \/ Tick
          \/ \E i \in Address, s \in Address, c \in ClaimType,
                e \in Expiration :
                /\ Cardinality(DOMAIN attestations) < MaxAtt
                /\ create_begin(1, i, s, c, e)
    \/ step_set_attestation(1)
    \/ step_read_subject_index(1)
    \/ step_write_subject_index(1)
    \/ step_read_issuer_index(1)
    \/ step_write_issuer_index(1)
    \/ step_publish(1)

StepSpec == Init /\ [][StepNext]_vars

\* ----- two calls, interleaved ------------------------------------------------
\* Storage keys are read and written one at a time, with nothing that keeps
\* two invocations apart: after the setup of the tests (an administrator and
\* one registered issuer) each slot runs one create_attestation call, and
\* the statements of the calls interleave in any order.
ConcInit ==
    /\ admin = Some(1)
    /\ issuers = {1}
    /\ attestations = [k \in {} |-> 0]
    /\ subject_attestations = [a \in Address |-> <<>>]
    /\ issuer_attestations = [a \in Address |-> <<>>]
    /\ now = 0
    /\ events = <<>>
    /\ last = Call("register_issuer", 1, "Ok", NoId)
    /\ page = NoPage
    /\ frames = [p \in Proc |-> NoFrame]

ConcNext ==
    \/ \E p \in Proc, i \in issuers, s \in Address, c \in ClaimType :
          /\ frames[p] = NoFrame
          /\ create_begin(p, i, s, c, None)
    \/ \E p \in Proc : step_set_attestation(p)
    \/ \E p \in Proc : step_read_subject_index(p)
    \/ \E p \in Proc : step_write_subject_index(p)
    \/ \E p \in Proc : step_read_issuer_index(p)
    \/ \E p \in Proc : step_write_issuer_index(p)
    \/ \E p \in Proc : step_publish(p)

ConcSpec == ConcInit /\ [][ConcNext]_vars

\* ----- paginated queries ----------------------------------------------------
\* The start and limit values a caller passes: the small ones, one that
\* carries into the high limb when added to, and the largest.
PageInputs == {u32_of(k) : k \in 0..MaxPos} \cup {<<0, Limb - 1>>, U32_MAX}

\* The build either checks arithmetic overflow or does not; the two builds
\* differ only on a sum that overflows.
OverflowChecks(start, limit) ==
    IF u32_overflows(start, limit) THEN BOOLEAN ELSE {TRUE}

\* The contract as the pagination test sets it up: an administrator and one
\* registered issuer.
PageInit ==
    /\ admin = Some(1)
    /\ issuers = {1}
    /\ attestations = [k \in {} |-> 0]
    /\ subject_attestations = [a \in Address |-> <<>>]
    /\ issuer_attestations = [a \in Address |-> <<>>]
    /\ now = 0
    /\ events = <<>>
    /\ last = Call("register_issuer", 1, "Ok", NoId)
    /\ page = NoPage
    /\ frames = [p \in Proc |-> NoFrame]

PageNext ==
    \/ \E i \in issuers, s \in Address, c \in ClaimType :
          /\ Cardinality(DOMAIN attestations) < MaxIndex
          /\ create_attestation(i, s, c, None, TRUE)
    \/ \E s \in Address, start \in PageInputs, limit \in PageInputs :
          \E overflow_checks \in OverflowChecks(start, limit) :
             contract_get_subject_attestations(s, start, limit,
                                               overflow_checks)
    \/ \E i \in Address, start \in PageInputs, limit \in PageInputs :
          \E overflow_checks \in OverflowChecks(start, limit) :
             contract_get_issuer_attestations(i, start, limit,
                                              overflow_checks)

PageSpec == PageInit /\ [][PageNext]_vars

TypeOK ==
    /\ admin \in {None} \cup {Some(a) : a \in Address}
    /\ issuers \subseteq Address
    /\ now \in Time
    /\ Cardinality(DOMAIN attestations) <= MaxAtt
    /\ page = NoPage
    /\ \A p \in Proc : frames[p] = NoFrame

\* ----- properties ---------------------------------------------------------
\* What "unrevoked and not past its expiration" means for a stored record.
Live(a) ==
    /\ ~a.revoked
    /\ (a.expiration = None \/ now < Unwrap(a.expiration))

Ids(index) == {index[k] : k \in 1..Len(index)}

\* C1: has_valid_claim(subject, claim_type) is true exactly when the
\* subject's index holds the id of a stored attestation of exactly that claim
\* type that is not revoked and has no expiration or now < expiration.
C1_HasValidClaimIff ==
    \A s \in Address, c \in ClaimType :
        has_valid_claim(s, c) <=>
            \E id \in Ids(subject_attestations[s]) :
                /\ id \in DOMAIN attestations
                /\ attestations[id].claim_type = c
                /\ Live(attestations[id])

\* A subject whose first attestation does not count (wrong type, revoked or
\* expired) and whose second one does, while it holds no claim of the other
\* type.
C1_Witness ==
    \E s \in Address, c \in ClaimType, d \in ClaimType :
        /\ Len(subject_attestations[s]) = 2
        /\ has_valid_claim(s, c)
        /\ ~has_valid_claim(s, d)
        /\ attestations[subject_attestations[s][1]].claim_type = d
        /\ attestations[subject_attestations[s][2]].claim_type = c
        /\ \E t \in Address : t # s /\ ~has_valid_claim(t, c)

\* C2: get_attestation_status of a stored attestation is Revoked iff revoked,
\* Expired iff not revoked and an expiration E is set with now >= E, Valid iff
\* not revoked and (no expiration or now < E); has_valid_claim for an
\* attestation that is the subject's only one of its type is true exactly
\* while the status is Valid.
C2_StatusDerived ==
    \A id \in DOMAIN attestations :
        LET a == attestations[id]
            st == get_attestation_status(id)
            same == {j \in Ids(subject_attestations[a.subject]) :
                        attestations[j].claim_type = a.claim_type}
        IN  /\ st.res = "Ok"
            /\ st.val \in {"Valid", "Expired", "Revoked"}
            /\ (st.val = "Revoked") <=> a.revoked
            /\ (st.val = "Expired") <=>
                   (~a.revoked /\ a.expiration # None
                        /\ now >= Unwrap(a.expiration))
            /\ (st.val = "Valid") <=>
                   (~a.revoked /\ (a.expiration = None
                                      \/ now < Unwrap(a.expiration)))
            /\ same = {id} =>
                   (has_valid_claim(a.subject, a.claim_type)
                        <=> st.val = "Valid")

\* An attestation created before its expiration tick that is Expired at
\* exactly that tick and no longer counts, next to a revoked one whose
\* expiration has passed too.
C2_Witness ==
    \E id \in DOMAIN attestations, jd \in DOMAIN attestations :
        /\ attestations[id].timestamp < now
        /\ attestations[id].expiration = Some(now)
        /\ get_attestation_status(id).val = "Expired"
        /\ ~has_valid_claim(attestations[id].subject,
                            attestations[id].claim_type)
        /\ attestations[jd].expiration = Some(now)
        /\ attestations[jd].revoked
        /\ get_attestation_status(jd).val = "Revoked"

\* C3: under the non-decreasing clock no step deletes an attestation, resets
\* its revoked flag or changes its expiration, so its status only moves
\* Valid -> Expired, Valid -> Revoked or Expired -> Revoked: Revoked stays
\* Revoked and Expired never becomes Valid again.
C3_StatusMonotone ==
    [][\A id \in DOMAIN attestations :
          /\ id \in DOMAIN attestations'
          /\ attestations[id].revoked => attestations'[id].revoked
          /\ attestations'[id].expiration = attestations[id].expiration
          /\ now' >= now
          /\ get_status(attestations[id], now) = "Revoked"
                 => get_status(attestations'[id], now') = "Revoked"
          /\ get_status(attestations[id], now) = "Expired"
                 => get_status(attestations'[id], now') \in {"Expired", "Revoked"}
      ]_vars

\* An attestation that was revoked after it had expired, while another one
\* has gone from Valid to Expired.
C3_Witness ==
    /\ last.op = "revoke_attestation" /\ last.res = "Ok"
    /\ attestations[last.id].expiration # None
    /\ attestations[last.id].timestamp < Unwrap(attestations[last.id].expiration)
    /\ now >= Unwrap(attestations[last.id].expiration)
    /\ get_attestation_status(last.id).val = "Revoked"
    /\ \E jd \in DOMAIN attestations :
          /\ attestations[jd].timestamp < now
          /\ get_attestation_status(jd).val = "Expired"

\* C4: an authenticated create_attestation(I, ...) succeeds only if I is in
\* the issuer set at the call: with I outside it (never registered, or
\* removed) the call fails Unauthorized and stores nothing; with I inside it
\* and no id collision it succeeds and stores the record.
C4_CreateNeedsIssuer ==
    [][last'.op = "create_attestation" =>
       \A i \in {last'.principal}, s \in Address, c \in ClaimType,
          e \in Expiration :
          create_attestation(i, s, c, e, TRUE) =>
              /\ last'.res = "Ok" => i \in issuers
              /\ i \notin issuers =>
                    /\ last'.res = "Unauthorized"
                    /\ attestations' = attestations
                    /\ subject_attestations' = subject_attestations
                    /\ issuer_attestations' = issuer_attestations
                    /\ events' = <<>>
              /\ (i \in issuers /\ ~has_attestation(generate_id(i, s, c, now)))
                    => /\ last'.res = "Ok"
                       /\ has_attestation(generate_id(i, s, c, now))'
      ]_vars

\* A creation refused to an address that had been registered (it has an
\* attestation of its own) and was removed since.
C4_Witness ==
    /\ last.op = "create_attestation" /\ last.res = "Unauthorized"
    /\ last.principal \notin issuers
    /\ \E id \in DOMAIN attestations : attestations[id].issuer = last.principal

\* C5: revocation rights follow authorship: an authenticated
\* revoke_attestation(I, id) by an address I that is no longer in the issuer
\* set, on a not-yet-revoked attestation I created, succeeds and leaves the
\* attestation Revoked.
C5_RemovedIssuerRevokes ==
    [][last'.op = "revoke_attestation" =>
       \A i \in Address, id \in DOMAIN attestations :
          ( /\ revoke_attestation(i, id, TRUE)
            /\ i \notin issuers
            /\ attestations[id].issuer = i
            /\ ~attestations[id].revoked )
          => /\ last'.res = "Ok"
             /\ attestations'[id].revoked
             /\ get_status(attestations'[id], now') = "Revoked"
      ]_vars

\* A successful revocation by an address outside the issuer set.
C5_Witness ==
    /\ last.op = "revoke_attestation" /\ last.res = "Ok"
    /\ last.principal \notin issuers
    /\ attestations[last.id].issuer = last.principal
    /\ get_attestation_status(last.id).val = "Revoked"

\* C6: an authenticated revoke_attestation(caller, id) on a stored
\* attestation whose issuer is not caller fails Unauthorized and leaves the
\* store unchanged, whoever caller is and whether or not the attestation is
\* revoked already; a revoked flag turns true only in a successful
\* revoke_attestation call of the attestation's own issuer.
C6_OnlyIssuerRevokes ==
    [][/\ last'.op = "revoke_attestation" =>
            \A i \in Address, id \in DOMAIN attestations :
            (revoke_attestation(i, id, TRUE) /\ attestations[id].issuer # i)
            => /\ last'.res = "Unauthorized"
               /\ attestations' = attestations
               /\ events' = <<>>
       /\ \A id \in DOMAIN attestations :
            (~attestations[id].revoked /\ attestations'[id].revoked)
            => /\ last'.op = "revoke_attestation"
               /\ last'.res = "Ok"
               /\ last'.id = id
               /\ last'.principal = attestations[id].issuer
      ]_vars

\* The administrator, a registered issuer, is refused the revocation of
\* another issuer's attestation that is revoked already.
C6_Witness ==
    /\ last.op = "revoke_attestation" /\ last.res = "Unauthorized"
    /\ admin = Some(last.principal)
    /\ last.principal \in issuers
    /\ attestations[last.id].issuer # last.principal
    /\ attestations[last.id].revoked
    /\ \E jd \in DOMAIN attestations : ~attestations[jd].revoked

\* C7: after a successful revoke_attestation(I, id) the status of id is
\* Revoked and has_valid_claim is true only through another attestation; an
\* authenticated second revoke_attestation(I, id) by the issuer fails
\* AlreadyRevoked, publishes no event and changes nothing of the state.
C7_RevokeOnce ==
    [][last'.op = "revoke_attestation" =>
       \A i \in Address, id \in DOMAIN attestations :
          (revoke_attestation(i, id, TRUE) /\ attestations[id].issuer = i)
          => /\ ~attestations[id].revoked =>
                  /\ last'.res = "Ok"
                  /\ get_attestation_status(id)' = [res |-> "Ok", val |-> "Revoked"]
                  /\ has_valid_claim(attestations[id].subject,
                                     attestations[id].claim_type)'
                       => \E jd \in Ids(subject_attestations'[attestations[id].subject]) :
                             /\ jd # id
                             /\ attestations'[jd].claim_type = attestations[id].claim_type
                             /\ get_status(attestations'[jd], now') = "Valid"
             /\ attestations[id].revoked =>
                  /\ last'.res = "AlreadyRevoked"
                  /\ events' = <<>>
                  /\ UNCHANGED <<admin, issuers, attestations,
                                 subject_attestations, issuer_attestations, now>>
      ]_vars

\* A second revocation by the issuer, refused.
C7_Witness ==
    /\ last.op = "revoke_attestation" /\ last.res = "AlreadyRevoked"
    /\ attestations[last.id].issuer = last.principal
    /\ attestations[last.id].revoked
    /\ ~has_valid_claim(attestations[last.id].subject,
                        attestations[last.id].claim_type)

\* C8: an authenticated create_attestation by a registered issuer fails
\* DuplicateAttestation exactly when an attestation of the same issuer,
\* subject and claim type created at the same clock tick is stored, and then
\* the store and the indexes are unchanged; otherwise (the same triple at
\* another tick included) it succeeds with an id not stored before, and the
\* earlier attestations stay as they were.
C8_DuplicateGuard ==
    [][last'.op = "create_attestation" =>
       \A i \in {last'.principal}, s \in Address, c \in ClaimType,
          e \in Expiration :
          (create_attestation(i, s, c, e, TRUE) /\ i \in issuers) =>
             LET sameTick == {id \in DOMAIN attestations :
                                /\ attestations[id].issuer = i
                                /\ attestations[id].subject = s
                                /\ attestations[id].claim_type = c
                                /\ attestations[id].timestamp = now}
             IN  /\ (last'.res = "DuplicateAttestation") <=> (sameTick # {})
                 /\ sameTick # {} =>
                       /\ attestations' = attestations
                       /\ subject_attestations' = subject_attestations
                       /\ issuer_attestations' = issuer_attestations
                 /\ sameTick = {} =>
                       /\ last'.res = "Ok"
                       /\ last'.id \notin DOMAIN attestations
                       /\ DOMAIN attestations' =
                              (DOMAIN attestations) \cup {last'.id}
                       /\ attestations'[last'.id].issuer = i
                       /\ attestations'[last'.id].subject = s
                       /\ attestations'[last'.id].claim_type = c
                       /\ \A id \in DOMAIN attestations :
                              attestations'[id] = attestations[id]
      ]_vars

\* A creation refused as a duplicate of the attestation the same issuer made
\* for the same subject and claim type at this tick: the record is still
\* the only entry of the subject's and of the issuer's index.
C8_Witness ==
    /\ last.op = "create_attestation" /\ last.res = "DuplicateAttestation"
    /\ now > 0
    /\ \E id \in DOMAIN attestations :
          /\ attestations[id].issuer = last.principal
          /\ attestations[id].timestamp = now
          /\ DOMAIN attestations = {id}
          /\ subject_attestations[attestations[id].subject] = <<id>>
          /\ issuer_attestations[last.principal] = <<id>>

\* C9: the administrator is set once: the first authenticated initialize(A)
\* succeeds and makes get_admin return A, every initialize call made while an
\* administrator is stored fails AlreadyInitialized, and no step changes or
\* clears a stored administrator.
C9_AdminSetOnce ==
    [][/\ admin # None => admin' = admin
       /\ last'.op = "initialize" =>
            \A a \in Address, auth \in BOOLEAN :
               initialize(a, auth) =>
                  /\ admin = None =>
                        /\ last'.res = "Ok"
                        /\ get_admin' = [res |-> "Ok", val |-> a]
                  /\ admin # None => last'.res = "AlreadyInitialized"
      ]_vars

\* An initialize call with another address than the administrator, refused.
C9_Witness ==
    /\ last.op = "initialize" /\ last.res = "AlreadyInitialized"
    /\ admin # None
    /\ admin # Some(last.principal)
    /\ get_admin.val # last.principal

\* C10: while no administrator is stored, get_admin fails NotInitialized,
\* every authenticated register_issuer and remove_issuer call fails
\* NotInitialized, and the issuer set is empty.
C10_NotInitialized ==
    admin = None =>
        /\ get_admin.res = "NotInitialized"
        /\ issuers = {}
        /\ last.op \in {"register_issuer", "remove_issuer"}
              => last.res = "NotInitialized"

\* A register_issuer call before any initialize, refused.
C10_Witness ==
    /\ admin = None
    /\ last.op = "register_issuer" /\ last.res = "NotInitialized"
    /\ get_admin.res = "NotInitialized"

\* C11: register_issuer(a, i) and remove_issuer(a, i) change the issuer set
\* only when a is the stored administrator: an authenticated call with any
\* other a (a registered issuer included) fails Unauthorized and leaves the
\* set as it was, the administrator's call adds or removes exactly i, and the
\* issuer set changes in no other step.
C11_AdminGatesIssuers ==
    [][/\ last'.op \in {"register_issuer", "remove_issuer"} =>
            \A a \in Address, i \in Address :
               /\ register_issuer(a, i, TRUE) =>
                     IF admin = Some(a)
                     THEN last'.res = "Ok" /\ issuers' = issuers \cup {i}
                     ELSE /\ admin # None => last'.res = "Unauthorized"
                          /\ issuers' = issuers
               /\ remove_issuer(a, i, TRUE) =>
                     IF admin = Some(a)
                     THEN last'.res = "Ok" /\ issuers' = issuers \ {i}
                     ELSE /\ admin # None => last'.res = "Unauthorized"
                          /\ issuers' = issuers
       /\ issuers' # issuers =>
            /\ last'.op \in {"register_issuer", "remove_issuer"}
            /\ last'.res = "Ok"
            /\ admin = Some(last'.principal)
      ]_vars

\* A registered issuer who is not the administrator, refused.
C11_Witness ==
    /\ last.op \in {"register_issuer", "remove_issuer"}
    /\ last.res = "Unauthorized"
    /\ last.principal \in issuers
    /\ admin # None /\ admin # Some(last.principal)

\* C12: whenever the issuer set is non-empty, an attestation is stored or an
\* index is non-empty, an administrator is stored.
C12_AdminFirst ==
    ( \/ issuers # {}
      \/ DOMAIN attestations # {}
      \/ \E a \in Address : subject_attestations[a] # <<>>
      \/ \E a \in Address : issuer_attestations[a] # <<>> )
    => has_admin

\* An issuer registered and an attestation stored and indexed.
C12_Witness ==
    /\ has_admin
    /\ issuers # {}
    /\ DOMAIN attestations # {}
    /\ \E a \in Address : subject_attestations[a] # <<>>
    /\ \E a \in Address : issuer_attestations[a] # <<>>

\* C16: the subject and issuer indexes are append-only in creation order.  In
\* every step each index sequence is a prefix of its next value; a successful
\* create_attestation appends its id at the end of the subject's and of the
\* issuer's sequence and touches no other sequence; every other operation
\* (revoke_attestation and remove_issuer included) leaves all of them as they
\* were.
IsPrefix(s, t) == Len(s) <= Len(t) /\ SubSeq(t, 1, Len(s)) = s

C16_IndexAppendOnly ==
    [][/\ \A a \in Address :
            /\ IsPrefix(subject_attestations[a], subject_attestations'[a])
            /\ IsPrefix(issuer_attestations[a], issuer_attestations'[a])
       /\ (last'.op = "create_attestation" /\ last'.res = "Ok") =>
            \A i \in {last'.principal}, s \in Address, c \in ClaimType,
               e \in Expiration :
               create_attestation(i, s, c, e, TRUE) =>
                  /\ subject_attestations' =
                        [subject_attestations EXCEPT
                           ![s] = Append(subject_attestations[s], last'.id)]
                  /\ issuer_attestations' =
                        [issuer_attestations EXCEPT
                           ![i] = Append(issuer_attestations[i], last'.id)]
       /\ ~(last'.op = "create_attestation" /\ last'.res = "Ok") =>
            UNCHANGED <<subject_attestations, issuer_attestations>>
      ]_vars

\* A revoked attestation still listed first in a subject index of two ids.
C16_Witness ==
    /\ last.op = "revoke_attestation" /\ last.res = "Ok"
    /\ \E a \in Address :
          /\ Len(subject_attestations[a]) = 2
          /\ subject_attestations[a][1] = last.id
          /\ attestations[last.id].revoked

\* C17: a successful create_attestation stores, under a fresh id, a record with
\* the issuer, subject, claim type and expiration passed, the ledger time as
\* timestamp and revoked = FALSE; no step deletes a stored record or changes
\* any field of it but revoked, which only goes from FALSE to TRUE.
C17_RecordFrame ==
    [][/\ \A id \in DOMAIN attestations :
            /\ id \in DOMAIN attestations'
            /\ \/ attestations'[id] = attestations[id]
               \/ /\ ~attestations[id].revoked
                  /\ attestations'[id] =
                        [attestations[id] EXCEPT !.revoked = TRUE]
       /\ (last'.op = "create_attestation" /\ last'.res = "Ok") =>
            \A i \in {last'.principal}, s \in Address, c \in ClaimType,
               e \in Expiration :
               create_attestation(i, s, c, e, TRUE) =>
                  /\ last'.id \notin DOMAIN attestations
                  /\ DOMAIN attestations' = DOMAIN attestations \cup {last'.id}
                  /\ attestations'[last'.id] =
                        [id         |-> last'.id,
                         issuer     |-> i,
                         subject    |-> s,
                         claim_type |-> c,
                         timestamp  |-> now,
                         expiration |-> e,
                         revoked    |-> FALSE]
      ]_vars

\* An attestation created with an expiration for another address, then revoked.
C17_Witness ==
    /\ last.op = "revoke_attestation" /\ last.res = "Ok"
    /\ attestations[last.id].revoked
    /\ attestations[last.id].expiration # None
    /\ attestations[last.id].issuer # attestations[last.id].subject

\* C18: all-or-nothing per call.  A call that returns AlreadyInitialized,
\* NotInitialized, Unauthorized, NotFound, DuplicateAttestation or
\* AlreadyRevoked leaves the administrator, the issuer set, the attestation
\* store and both indexes as they were and publishes no event; a successful
\* create_attestation applies all three writes: the record, the subject
\* index entry and the issuer index entry.
Errors ==
    {"AlreadyInitialized", "NotInitialized", "Unauthorized", "NotFound",
     "DuplicateAttestation", "AlreadyRevoked"}

C18_AllOrNothing ==
    [][/\ last'.res \in Errors =>
            /\ UNCHANGED <<admin, issuers, attestations,
                           subject_attestations, issuer_attestations>>
            /\ events' = <<>>
       /\ (last'.op = "create_attestation" /\ last'.res = "Ok") =>
            /\ last'.id \notin DOMAIN attestations
            /\ last'.id \in DOMAIN attestations'
            /\ \E s \in {attestations'[last'.id].subject} :
                  subject_attestations'[s] =
                     Append(subject_attestations[s], last'.id)
            /\ \E i \in {attestations'[last'.id].issuer} :
                  issuer_attestations'[i] =
                     Append(issuer_attestations[i], last'.id)
      ]_vars

\* A refused duplicate after a creation that stored and indexed its record.
C18_Witness ==
    /\ last.op = "create_attestation" /\ last.res = "DuplicateAttestation"
    /\ events = <<>>
    /\ \E id \in DOMAIN attestations :
          /\ id \in Ids(subject_attestations[attestations[id].subject])
          /\ id \in Ids(issuer_attestations[attestations[id].issuer])
          /\ attestations[id].issuer = last.principal

\* C19: a successful create_attestation publishes exactly one created event,
\* under the subject, carrying the id, issuer, claim type and timestamp of the
\* record it stored; a successful revoke_attestation publishes exactly one
\* revoked event, under the issuer, carrying the id; every other call, failed
\* or not, publishes none.  Each event is published in the call that makes
\* the write, so for every subject the created events follow the order of
\* the index appends and for every issuer the revoked events follow the
\* order of the revocations.
C19_Events ==
    [][/\ (last'.op = "create_attestation" /\ last'.res = "Ok") =>
            \A i \in {last'.principal}, s \in Address, c \in ClaimType,
               e \in Expiration :
               create_attestation(i, s, c, e, TRUE) =>
                  /\ events' = << [topic |-> <<"created", s>>,
                                   data  |-> <<last'.id, i, c, now>>] >>
                  /\ events'[1].data =
                        <<attestations'[last'.id].id,
                          attestations'[last'.id].issuer,
                          attestations'[last'.id].claim_type,
                          attestations'[last'.id].timestamp>>
                  /\ subject_attestations'[s] =
                        Append(subject_attestations[s], events'[1].data[1])
       /\ (last'.op = "revoke_attestation" /\ last'.res = "Ok") =>
            \A i \in {last'.principal}, id \in {last'.id} :
               revoke_attestation(i, id, TRUE) =>
                  /\ events' = << [topic |-> <<"revoked", i>>, data |-> id] >>
                  /\ ~attestations[id].revoked /\ attestations'[id].revoked
       /\ ~(last'.op \in {"create_attestation", "revoke_attestation"}
            /\ last'.res = "Ok") =>
            events' = <<>>
       /\ events' # <<>> =>
            \/ /\ events'[1].topic[1] = "created"
               /\ events'[1].data[1] \notin DOMAIN attestations
               /\ events'[1].data[1] \in DOMAIN attestations'
            \/ /\ events'[1].topic[1] = "revoked"
               /\ ~attestations[events'[1].data].revoked
               /\ attestations'[events'[1].data].revoked
      ]_vars

\* A second creation for one subject by an issuer other than the subject.
C19_Witness ==
    /\ last.op = "create_attestation" /\ last.res = "Ok"
    /\ Len(events) = 1
    /\ events[1].topic[1] = "created"
    /\ events[1].topic[2] # events[1].data[2]
    /\ Len(subject_attestations[events[1].topic[2]]) = 2

\* C20: a call whose principal argument does not authorize it changes
\* nothing: whatever the arguments, and also when the principal named is the
\* stored administrator, a registered issuer or the author of the
\* attestation, the administrator, the issuer set, the attestation store and
\* both indexes stay as they were and no event is published.
C20_AuthRequired ==
    [][( \/ ~UNCHANGED <<admin, issuers, attestations,
                         subject_attestations, issuer_attestations>>
         \/ events' # <<>>
         \/ (last'.res = "Ok" /\ last'.op # "tick") )
       => \A a \in {last'.principal} :
            ~( \/ initialize(a, FALSE)
               \/ \E i \in Address : register_issuer(a, i, FALSE)
               \/ \E i \in Address : remove_issuer(a, i, FALSE)
               \/ \E s \in Address, c \in ClaimType, e \in Expiration :
                     create_attestation(a, s, c, e, FALSE)
               \/ \E id \in IdInputs : revoke_attestation(a, id, FALSE) )
      ]_vars

\* The administrator, who is also a registered issuer and the author of an
\* unrevoked attestation, named in a call that was not authorized.
C20_Witness ==
    /\ last.op = "require_auth" /\ last.res = "AuthFailed"
    /\ admin = Some(last.principal)
    /\ last.principal \in issuers
    /\ \E id \in DOMAIN attestations :
          /\ attestations[id].issuer = last.principal
          /\ ~attestations[id].revoked

\* ----- pagination ------------------------------------------------------------
\* The index the last query read.
PageIndex ==
    IF page.op = "get_subject_attestations"
    THEN subject_attestations[page.key]
    ELSE issuer_attestations[page.key]

\* Position k (counted from 0) lies in [start, start + limit), the sum taken
\* in the naturals.
InWindow(k, start, limit) ==
    /\ start[1] = 0 /\ start[2] <= k
    /\ limit[1] > 0 \/ k - start[2] < limit[2]

\* The entries of an index at a set of consecutive positions, in index order.
Entries(index, positions) ==
    IF positions = {} THEN <<>>
    ELSE LET first == CHOOSE k \in positions : \A j \in positions : k <= j
         IN  [n \in 1..Cardinality(positions) |-> index[first + n]]

\* C13: for every index key and every start and limit whose sum does not
\* overflow, get_subject_attestations and get_issuer_attestations return,
\* without error, exactly the entries at the positions
\* [start, min(start + limit, total)) in index order: at most limit ids,
\* none when start >= total and none when limit = 0.
C13_PageWindow ==
    (page.op # "none" /\ ~u32_overflows(page.start, page.limit)) =>
       /\ page.res = "Ok"
       /\ page.val =
             Entries(PageIndex,
                     {k \in 0..(Len(PageIndex) - 1) :
                         InWindow(k, page.start, page.limit)})
       /\ ~u32_lt(page.limit, u32_of(Len(page.val)))
       /\ ~u32_lt(page.start, u32_of(Len(PageIndex))) => page.val = <<>>
       /\ page.limit = u32_of(0) => page.val = <<>>

\* The second entry alone, out of an index of three.
C13_Witness ==
    /\ page.op # "none"
    /\ Len(PageIndex) = 3
    /\ page.start = u32_of(1) /\ page.limit = u32_of(1)
    /\ page.val = <<PageIndex[2]>>

\* C14: when start + limit exceeds 2^32 - 1 the end bound saturates to
\* total: the query returns, without error, the entries [start, total).
C14_OverflowSaturates ==
    (page.op # "none" /\ u32_overflows(page.start, page.limit)) =>
       /\ page.res = "Ok"
       /\ page.val =
             Entries(PageIndex,
                     {k \in 0..(Len(PageIndex) - 1) :
                         page.start[1] = 0 /\ page.start[2] <= k})

\* The same in a build that does not check overflow: the wrapped sum is
\* below start, the loop does not run, and the page is empty although
\* entries from start on exist.
C14_WrappingBuildSaturates ==
    (page.op # "none" /\ u32_overflows(page.start, page.limit)
        /\ page.res = "Ok") =>
       page.val =
          Entries(PageIndex,
                  {k \in 0..(Len(PageIndex) - 1) :
                      page.start[1] = 0 /\ page.start[2] <= k})

\* C15: at every point of every call, each id listed in a subject index or
\* an issuer index is the key of a stored attestation: get_attestation finds
\* it.  create_attestation writes the record before it pushes the id on
\* either index, so this also holds between its statements.
C15_IndexedIdsStored ==
    \A a \in Address :
       /\ \A k \in 1..Len(subject_attestations[a]) :
             /\ has_attestation(subject_attestations[a][k])
             /\ get_attestation(subject_attestations[a][k]).res = "Ok"
       /\ \A k \in 1..Len(issuer_attestations[a]) :
             /\ has_attestation(issuer_attestations[a][k])
             /\ get_attestation(issuer_attestations[a][k]).res = "Ok"

\* A create_attestation call that has stored its record and pushed the id on
\* the subject's index, and is about to write the issuer's.
C15_Witness ==
    \E p \in Proc :
       /\ frames[p].pc = "write_issuer_index"
       /\ has_attestation(frames[p].attestation.id)
       /\ frames[p].attestation.id \in
             Ids(subject_attestations[frames[p].attestation.subject])
       /\ frames[p].attestation.id \notin
             Ids(issuer_attestations[frames[p].attestation.issuer])

\* How often an id occurs in an index sequence.
Occurrences(index, id) == Cardinality({k \in 1..Len(index) : index[k] = id})

\* C22: with every public operation atomic, each stored attestation's id
\* occurs exactly once in the subject index of its subject and exactly once
\* in the issuer index of its issuer, and in no other index sequence; so the
\* length of a subject's (issuer's) index is the number of stored
\* attestations with that subject (issuer), and no index repeats an id.
C22_IndexExactlyOnce ==
    /\ \A id \in DOMAIN attestations, a \in Address :
          /\ Occurrences(subject_attestations[a], id) =
                IF attestations[id].subject = a THEN 1 ELSE 0
          /\ Occurrences(issuer_attestations[a], id) =
                IF attestations[id].issuer = a THEN 1 ELSE 0
    /\ \A a \in Address :
          /\ Len(subject_attestations[a]) =
                Cardinality({id \in DOMAIN attestations :
                                attestations[id].subject = a})
          /\ Len(issuer_attestations[a]) =
                Cardinality({id \in DOMAIN attestations :
                                attestations[id].issuer = a})
          /\ \A j, k \in 1..Len(subject_attestations[a]) :
                subject_attestations[a][j] = subject_attestations[a][k]
                   => j = k
          /\ \A j, k \in 1..Len(issuer_attestations[a]) :
                issuer_attestations[a][j] = issuer_attestations[a][k]
                   => j = k

\* Two attestations by one issuer, one for each of two subjects.
C22_Witness ==
    /\ last.op = "create_attestation" /\ last.res = "Ok"
    /\ \E i \in Address :
          /\ Len(issuer_attestations[i]) = 2
          /\ \A a \in Address : Len(subject_attestations[a]) = 1

\* C23: remove_issuer touches no attestation and no index: across the call
\* every attestation keeps its status and has_valid_claim answers as before
\* for every subject and claim type; and in every state an attestation whose
\* issuer is no longer registered is still Valid, and counts for
\* has_valid_claim, as long as it is neither revoked nor expired.
C23_RemovedIssuerClaimsStay ==
    [][/\ last'.op = "remove_issuer" =>
            /\ UNCHANGED <<attestations, subject_attestations,
                           issuer_attestations>>
            /\ \A id \in IdInputs :
                  get_attestation_status(id)' = get_attestation_status(id)
            /\ \A s \in Address, c \in ClaimType :
                  has_valid_claim(s, c)' = has_valid_claim(s, c)
       /\ \A id \in DOMAIN attestations :
            (~is_issuer(attestations[id].issuer) /\ Live(attestations[id]))
            => /\ get_attestation_status(id).val = "Valid"
               /\ has_valid_claim(attestations[id].subject,
                                  attestations[id].claim_type)
      ]_vars

\* The issuer of a live attestation was just removed, and the claim holds.
C23_Witness ==
    /\ last.op = "remove_issuer" /\ last.res = "Ok"
    /\ \E id \in DOMAIN attestations :
          /\ ~is_issuer(attestations[id].issuer)
          /\ Live(attestations[id])
          /\ has_valid_claim(attestations[id].subject,
                             attestations[id].claim_type)

\* ----- interleaved index appends ---------------------------------------------
\* Call p has returned.
Returned(p) == frames[p].pc = "idle" /\ frames[p] # NoFrame

\* p and q are the only calls on the subject key of p, and likewise for the
\* issuer key.
OnlyOnSubject(p, q) ==
    \A r \in Proc \ {p, q} :
       frames[r].attestation.subject # frames[p].attestation.subject

OnlyOnIssuer(p, q) ==
    \A r \in Proc \ {p, q} :
       frames[r].attestation.issuer # frames[p].attestation.issuer

\* What two returned calls on one index key leave in that index, given the
\* vectors the two read: if both read before either wrote (they read the same
\* vector), the second write-back drops the id of the first and exactly one
\* of the two ids is listed; if one read after the other wrote, both ids are
\* listed, in the order in which the calls wrote.
AppendOutcome(index, id_p, read_p, id_q, read_q) ==
    IF read_p = read_q
    THEN /\ Len(index) = Len(read_p) + 1
         /\ (id_p \in Ids(index)) # (id_q \in Ids(index))
    ELSE \/ index = read_p \o <<id_p, id_q>>
         \/ index = read_q \o <<id_q, id_p>>

\* C21: the index append is a read followed by a write-back of what was read,
\* not a compare-and-swap.  Of two create_attestation calls on the same
\* subject (or issuer) key that both read the index before either writes it
\* back, one id is missing from the index although both records are stored;
\* when the second call reads after the first has written, both ids are in
\* the index in creation order.
C21_LostIndexAppend ==
    \A p \in Proc, q \in Proc :
       ( /\ p # q
         /\ Returned(p) /\ Returned(q)
         /\ frames[p].attestation.id # frames[q].attestation.id )
       => /\ has_attestation(frames[p].attestation.id)
          /\ has_attestation(frames[q].attestation.id)
          /\ ( /\ frames[p].attestation.subject = frames[q].attestation.subject
               /\ OnlyOnSubject(p, q) )
             => AppendOutcome(
                   subject_attestations[frames[p].attestation.subject],
                   frames[p].attestation.id, frames[p].subject_ids,
                   frames[q].attestation.id, frames[q].subject_ids)
          /\ ( /\ frames[p].attestation.issuer = frames[q].attestation.issuer
               /\ OnlyOnIssuer(p, q) )
             => AppendOutcome(
                   issuer_attestations[frames[p].attestation.issuer],
                   frames[p].attestation.id, frames[p].issuer_ids,
                   frames[q].attestation.id, frames[q].issuer_ids)

\* Two calls for one subject have returned, both records are stored, and the
\* subject's index lists one id only.
C21_Witness ==
    \E p \in Proc, q \in Proc :
       /\ p # q
       /\ Returned(p) /\ Returned(q)
       /\ frames[p].attestation.id # frames[q].attestation.id
       /\ frames[p].attestation.subject = frames[q].attestation.subject
       /\ has_attestation(frames[p].attestation.id)
       /\ has_attestation(frames[q].attestation.id)
       /\ frames[p].subject_ids = frames[q].subject_ids
       /\ Len(subject_attestations[frames[p].attestation.subject]) = 1

====
